---- MODULE Spec2Model ----
(***************************************************************************)
(* State-machine model of app.py, the Streamlit "SDG Startup Tool".        *)
(*                                                                         *)
(* One behaviour of the model is one browser session.  Every action is one *)
(* script rerun: the widget callback (if a button was clicked) followed by *)
(* the page the script then renders.  Streamlit runs the reruns of one     *)
(* session one after the other, so each action is atomic.                  *)
(*                                                                         *)
(* Data representation                                                     *)
(*   - a JSON value returned by the LLM is [kind, items]: kind is "dict"   *)
(*     or "list", items is the sequence of SDG codes in the order the      *)
(*     response lists them (a Python dict keeps insertion order; the title *)
(*     stored under a code rides along with the code);                     *)
(*   - a text is [lang, tokens]; the empty string has no tokens;           *)
(*   - goals_and_kpis and integration_plan are functions from SDG codes;   *)
(*   - an organisation number is a sequence of one-character strings.      *)
(***************************************************************************)
EXTENDS Integers, Sequences, FiniteSets, TLC

\* Bounds of the model.
MaxSDG == 2
MaxGoal == 2

\* The prompt asks for "the 3 to 5 most relevant SDGs".
TaxonomySize == 5

VARIABLES
    setup_complete,        \* st.session_state.setup_complete
    org_nr,                \* st.session_state.org_nr (text_input key)
    startup_name,          \* st.session_state.startup_name
    business_description,  \* st.session_state.business_description
    website,               \* st.session_state.website
    sector,                \* st.session_state.sector
    employees,             \* st.session_state.employees
    mapped_sdgs,           \* st.session_state.mapped_sdgs
    prioritized_sdgs,      \* st.session_state.prioritized_sdgs
    goals_and_kpis,        \* st.session_state.goals_and_kpis
    integration_plan,      \* st.session_state.integration_plan
    reporting_framework,   \* st.session_state.reporting_framework
    page,                  \* the page the last rerun rendered
    calls,                 \* external requests issued by the last rerun
    alerts,                \* st.warning / st.error raised by the last rerun's callback
    framework_rendered     \* history: page 5 has been rendered in this session

profile == <<startup_name, business_description, website, sector, employees>>

wizard == <<goals_and_kpis, integration_plan, reporting_framework, framework_rendered>>

vars == <<setup_complete, org_nr, startup_name, business_description, website,
          sector, employees, mapped_sdgs, prioritized_sdgs, goals_and_kpis,
          integration_plan, reporting_framework, page, calls, alerts,
          framework_rendered>>

(***************************************************************************)
(* Values                                                                  *)
(***************************************************************************)
EmptyText == [lang |-> "none", tokens |-> <<>>]

EmptyDict == [kind |-> "dict", items |-> <<>>]

EmptyMap == [c \in {} |-> 0]

Digits == {"0", "1", "2", "3", "4", "5", "6", "7", "8", "9"}

\* What the user may type into the organisation-number box.
OrgNumbers ==
    { <<>>,
      <<"9", "2", "3", "6", "0", "9", "0", "1">>,
      <<"9", "2", "3", "6", "0", "9", "0", "1", "6">>,
      <<"9", "2", "3", "6", "0", "9", "0", "1", "A">>,
      <<"9", "2", "3", "6", "0", "9", "0", "1", "6", "0">> }

\* Bodies the registry may answer with; "present" holds the JSON keys the body has.
RegistryBodies ==
    { [present |-> {"navn", "vedtektsfestetFormaal", "hjemmeside", "naeringskode1", "antallAnsatte"},
       navn |-> "Acme AS", vedtektsfestetFormaal |-> <<"ren", "energi">>,
       hjemmeside |-> "acme.no", naeringskode1 |-> "Kraftproduksjon", antallAnsatte |-> 12],
      [present |-> {},
       navn |-> "", vedtektsfestetFormaal |-> <<>>,
       hjemmeside |-> "", naeringskode1 |-> "", antallAnsatte |-> 0],
      [present |-> {"navn", "vedtektsfestetFormaal"},
       navn |-> "Blank AS", vedtektsfestetFormaal |-> <<"">>,
       hjemmeside |-> "", naeringskode1 |-> "", antallAnsatte |-> 0] }

GetOutcomes == {"ok", "http_error", "connection_error"}

TranslateOutcomes == {"ok", "error"}

SDGCodes == 1..MaxSDG

InjectiveSeqs(S) ==
    { s \in UNION { [1..n -> S] : n \in 0..Cardinality(S) } :
        \A i, j \in DOMAIN s : s[i] = s[j] => i = j }

\* JSON objects over the codes of the model, in every order.
LLMDicts == { [kind |-> "dict", items |-> s] : s \in InjectiveSeqs(SDGCodes) }

\* json.loads accepts any JSON text: an array parses to a Python list.
LLMLists == { [kind |-> "list", items |-> <<1>>] }

LLMResponses == LLMDicts \cup LLMLists

\* A JSON object with one key more than the prompt asks for.
OversizeResponses == { [kind |-> "dict", items |-> [i \in 1..(TaxonomySize + 1) |-> i]] }

AIOutcomes(responses) ==
    { [result |-> "no_api_key", value |-> EmptyDict],
      [result |-> "model_error", value |-> EmptyDict],
      [result |-> "unparsable", value |-> EmptyDict] }
    \cup { [result |-> "json", value |-> v] : v \in responses }

GoalTexts == 1..MaxGoal

KpiTexts == {"kpi"}

Departments == {"R&D", "Sales"}

ActionItems == {"action"}

Frameworks == <<"GRI", "IRIS", "B Corp", "SDG Compass">>

MainPages == {"Home", "1", "2", "3", "4", "5", "6"}

WarnTranslation == "Translation failed. Using original text."

ErrInvalidOrgNr == "Error: Please enter a valid 9-digit organisation number."

ErrHttp == "Error: Organisation number not found or API error."

ErrConnection == "Error: Could not connect to the API."

ErrGeminiConfig == "Error configuring Gemini."

ErrGeminiAnalysis == "An error occurred with the Gemini AI analysis."

WarnNoOrgNr == "Please enter an Organisation Number."

(***************************************************************************)
(* Helper functions                                                        *)
(***************************************************************************)
RECURSIVE Join(_)
\* " ".join(words): an empty word contributes no character.
Join(words) ==
    IF words = <<>> THEN <<>>
    ELSE LET rest == Join(Tail(words))
             head == IF Head(words) = "" THEN <<>> ELSE <<Head(words)>>
         IN IF Tail(words) = <<>> THEN head ELSE head \o <<" ">> \o rest

\* Python truthiness of a dict or a list.
Truthy(v) == Len(v.items) > 0

Keys(v) == { v.items[i] : i \in DOMAIN v.items }

translate_to_english(text, outcome) ==
    IF text.tokens = <<>>
    THEN [value |-> EmptyText, calls |-> <<>>, alerts |-> <<>>]
    ELSE IF outcome = "ok"
    THEN [value |-> [lang |-> "en", tokens |-> text.tokens],
          calls |-> <<"TRANSLATE">>, alerts |-> <<>>]
    ELSE [value |-> text, calls |-> <<"TRANSLATE">>, alerts |-> <<WarnTranslation>>]

IsValidOrgNr(o) == (o # <<>> /\ \A i \in DOMAIN o : o[i] \in Digits) /\ Len(o) = 9

\* The try block of fetch_brreg_data: one GET, then the record or an error string.
registry_request(get, body, tr) ==
    IF get = "http_error"
    THEN [kind |-> "str", text |-> ErrHttp, calls |-> <<"GET">>, alerts |-> <<>>]
    ELSE IF get = "connection_error"
    THEN [kind |-> "str", text |-> ErrConnection, calls |-> <<"GET">>, alerts |-> <<>>]
    ELSE LET name == IF "navn" \in body.present THEN body.navn ELSE "Name not found."
             description_no ==
                 IF "vedtektsfestetFormaal" \in body.present
                    /\ body.vedtektsfestetFormaal # <<>>
                 THEN [lang |-> "no", tokens |-> Join(body.vedtektsfestetFormaal)]
                 ELSE [lang |-> "no", tokens |-> <<"No official purpose found.">>]
             translated == translate_to_english(description_no, tr)
         IN [kind |-> "dict",
             name |-> name,
             description_no |-> description_no,
             description_en |-> translated.value,
             website |-> IF "hjemmeside" \in body.present
                         THEN body.hjemmeside ELSE "Not available",
             sector |-> IF "naeringskode1" \in body.present
                        THEN body.naeringskode1 ELSE "Not available",
             employees |-> IF "antallAnsatte" \in body.present
                           THEN body.antallAnsatte ELSE 0,
             calls |-> <<"GET">> \o translated.calls,
             alerts |-> translated.alerts]

\* The format check is skipped: every number is sent to the registry.
fetch_brreg_data_unchecked(o, get, body, tr) == registry_request(get, body, tr)

fetch_brreg_data(o, get, body, tr) ==
    IF ~IsValidOrgNr(o)
    THEN [kind |-> "str", text |-> ErrInvalidOrgNr, calls |-> <<>>, alerts |-> <<>>]
    ELSE registry_request(get, body, tr)

\* A failed generate_content is tried a second time.
analyze_sdgs_with_retry(description, ai) ==
    IF ai.result = "no_api_key"
    THEN [value |-> EmptyDict, calls |-> <<>>, alerts |-> <<ErrGeminiConfig>>]
    ELSE IF ai.result \in {"model_error", "unparsable"}
    THEN [value |-> EmptyDict, calls |-> <<"LLM", "LLM">>, alerts |-> <<ErrGeminiAnalysis>>]
    ELSE [value |-> ai.value, calls |-> <<"LLM">>, alerts |-> <<>>]

analyze_sdgs_with_ai(description, ai) ==
    IF ai.result = "no_api_key"
    THEN [value |-> EmptyDict, calls |-> <<>>, alerts |-> <<ErrGeminiConfig>>]
    ELSE IF ai.result \in {"model_error", "unparsable"}
    THEN [value |-> EmptyDict, calls |-> <<"LLM">>, alerts |-> <<ErrGeminiAnalysis>>]
    ELSE [value |-> ai.value, calls |-> <<"LLM">>, alerts |-> <<>>]

(***************************************************************************)
(* Session state initialisation                                            *)
(***************************************************************************)
Init ==
    /\ setup_complete = FALSE
    /\ org_nr = <<>>
    /\ startup_name = ""
    /\ business_description = EmptyText
    /\ website = ""
    /\ sector = ""
    /\ employees = 0
    /\ mapped_sdgs = EmptyDict
    /\ prioritized_sdgs = <<>>
    /\ goals_and_kpis = EmptyMap
    /\ integration_plan = EmptyMap
    /\ reporting_framework = "Not Selected"
    /\ page = "Setup"
    /\ calls = <<>>
    /\ alerts = <<>>
    /\ framework_rendered = FALSE

(***************************************************************************)
(* Setup page                                                              *)
(***************************************************************************)
\* The user edits the organisation-number box; the rerun runs no callback.
EnterOrgNr(o) ==
    /\ ~setup_complete
    /\ org_nr' = o
    /\ calls' = <<>>
    /\ alerts' = <<>>
    /\ UNCHANGED <<setup_complete, profile, mapped_sdgs, prioritized_sdgs, wizard, page>>

\* setup_complete is set outside the isinstance branch.
StartAnalysisCompletesOnError(get, body, tr, ai) ==
    /\ ~setup_complete
    /\ org_nr # <<>>
    /\ LET fetched_data == fetch_brreg_data(org_nr, get, body, tr)
       IN /\ alerts' = IF fetched_data.kind = "dict" THEN fetched_data.alerts
                       ELSE <<fetched_data.text>>
          /\ calls' = fetched_data.calls
    /\ setup_complete' = TRUE
    /\ page' = "Home"
    /\ UNCHANGED <<org_nr, profile, mapped_sdgs, prioritized_sdgs, wizard>>

\* setup_complete is set only when the analysis found something.
StartAnalysisRequiresMapping(get, body, tr, ai) ==
    /\ ~setup_complete
    /\ org_nr # <<>>
    /\ LET fetched_data == fetch_brreg_data(org_nr, get, body, tr)
       IN /\ fetched_data.kind = "dict"
          /\ LET analysis == analyze_sdgs_with_ai(fetched_data.description_en, ai)
             IN /\ startup_name' = fetched_data.name
                /\ business_description' = fetched_data.description_en
                /\ website' = fetched_data.website
                /\ sector' = fetched_data.sector
                /\ employees' = fetched_data.employees
                /\ mapped_sdgs' = analysis.value
                /\ setup_complete' = Truthy(analysis.value)
                /\ page' = IF Truthy(analysis.value) THEN "Home" ELSE "Setup"
                /\ calls' = fetched_data.calls \o analysis.calls
                /\ alerts' = fetched_data.alerts \o analysis.alerts
    /\ UNCHANGED <<org_nr, prioritized_sdgs, wizard>>

\* The on_click callback of "Find Company & Start Analysis", then the rerun.
StartAnalysis(get, body, tr, ai) ==
    /\ ~setup_complete
    /\ IF org_nr = <<>>
       THEN /\ alerts' = <<WarnNoOrgNr>>
            /\ calls' = <<>>
            /\ UNCHANGED <<setup_complete, profile, mapped_sdgs, page>>
       ELSE LET fetched_data == fetch_brreg_data(org_nr, get, body, tr)
            IN IF fetched_data.kind = "dict"
               THEN LET analysis == analyze_sdgs_with_ai(fetched_data.description_en, ai)
                    IN /\ startup_name' = fetched_data.name
                       /\ business_description' = fetched_data.description_en
                       /\ website' = fetched_data.website
                       /\ sector' = fetched_data.sector
                       /\ employees' = fetched_data.employees
                       /\ mapped_sdgs' = analysis.value
                       /\ setup_complete' = TRUE
                       /\ page' = "Home"
                       /\ calls' = fetched_data.calls \o analysis.calls
                       /\ alerts' = fetched_data.alerts \o analysis.alerts
               ELSE /\ alerts' = <<fetched_data.text>>
                    /\ calls' = fetched_data.calls
                    /\ UNCHANGED <<setup_complete, profile, mapped_sdgs, page>>
    /\ UNCHANGED <<org_nr, prioritized_sdgs, wizard>>

(***************************************************************************)
(* Main application pages                                                  *)
(***************************************************************************)
\* Page 5 shows the select box without storing its value.
NavigateKeepsFramework(p) ==
    /\ setup_complete
    /\ p \in MainPages
    /\ p # page
    /\ page' = p
    /\ framework_rendered' = (framework_rendered \/ p = "5")
    /\ calls' = <<>>
    /\ alerts' = <<>>
    /\ UNCHANGED <<setup_complete, org_nr, profile, mapped_sdgs, prioritized_sdgs,
                   goals_and_kpis, integration_plan, reporting_framework>>

\* The sidebar radio changes; the rerun renders page p.  The select box of
\* page 5 is a fresh widget whenever the page is entered, so it holds its
\* first option, which the page stores.
Navigate(p) ==
    /\ setup_complete
    /\ p \in MainPages
    /\ p # page
    /\ page' = p
    /\ IF p = "5"
       THEN /\ reporting_framework' = Frameworks[1]
            /\ framework_rendered' = TRUE
       ELSE UNCHANGED <<reporting_framework, framework_rendered>>
    /\ calls' = <<>>
    /\ alerts' = <<>>
    /\ UNCHANGED <<setup_complete, org_nr, profile, mapped_sdgs, prioritized_sdgs,
                   goals_and_kpis, integration_plan>>

\* A saved goal wipes the integration plan of the same SDG.
SaveGoalDropsPlan(goal, kpi) ==
    /\ setup_complete
    /\ page = "3"
    /\ Truthy(mapped_sdgs)
    /\ mapped_sdgs.kind = "dict"
    /\ \E selected_sdg \in Keys(mapped_sdgs) :
          /\ goals_and_kpis' =
                 [c \in DOMAIN goals_and_kpis \cup {selected_sdg} |->
                     IF c = selected_sdg THEN [goal |-> goal, kpi |-> kpi]
                     ELSE goals_and_kpis[c]]
          /\ integration_plan' =
                 [c \in DOMAIN integration_plan \ {selected_sdg} |-> integration_plan[c]]
    /\ calls' = <<>>
    /\ alerts' = <<>>
    /\ UNCHANGED <<setup_complete, org_nr, profile, mapped_sdgs, prioritized_sdgs,
                   reporting_framework, framework_rendered, page>>

\* Page 3 reaches its widgets only if mapped_sdgs is truthy and has .keys().
SaveGoal(goal, kpi) ==
    /\ setup_complete
    /\ page = "3"
    /\ Truthy(mapped_sdgs)
    /\ mapped_sdgs.kind = "dict"
    /\ LET sdg_options == Keys(mapped_sdgs)
       IN \E selected_sdg \in sdg_options :
             goals_and_kpis' =
                 [c \in DOMAIN goals_and_kpis \cup {selected_sdg} |->
                     IF c = selected_sdg THEN [goal |-> goal, kpi |-> kpi]
                     ELSE goals_and_kpis[c]]
    /\ calls' = <<>>
    /\ alerts' = <<>>
    /\ UNCHANGED <<setup_complete, org_nr, profile, mapped_sdgs, prioritized_sdgs,
                   integration_plan, reporting_framework, framework_rendered, page>>

\* The select box of page 4 offers every mapped SDG, with or without a goal.
SaveIntegrationFromMapped(department, action_item) ==
    /\ setup_complete
    /\ page = "4"
    /\ Truthy(mapped_sdgs)
    /\ mapped_sdgs.kind = "dict"
    /\ \E selected_goal \in Keys(mapped_sdgs) :
          integration_plan' =
              [c \in DOMAIN integration_plan \cup {selected_goal} |->
                  IF c = selected_goal
                  THEN [department |-> department, action_item |-> action_item]
                  ELSE integration_plan[c]]
    /\ calls' = <<>>
    /\ alerts' = <<>>
    /\ UNCHANGED <<setup_complete, org_nr, profile, mapped_sdgs, prioritized_sdgs,
                   goals_and_kpis, reporting_framework, framework_rendered, page>>

SaveIntegration(department, action_item) ==
    /\ setup_complete
    /\ page = "4"
    /\ DOMAIN goals_and_kpis # {}
    /\ LET goal_options == DOMAIN goals_and_kpis
       IN \E selected_goal \in goal_options :
             integration_plan' =
                 [c \in DOMAIN integration_plan \cup {selected_goal} |->
                     IF c = selected_goal
                     THEN [department |-> department, action_item |-> action_item]
                     ELSE integration_plan[c]]
    /\ calls' = <<>>
    /\ alerts' = <<>>
    /\ UNCHANGED <<setup_complete, org_nr, profile, mapped_sdgs, prioritized_sdgs,
                   goals_and_kpis, reporting_framework, framework_rendered, page>>

\* The user picks another option of the select box of page 5; the rerun stores it.
SelectFramework(selected_framework) ==
    /\ setup_complete
    /\ page = "5"
    /\ reporting_framework' = selected_framework
    /\ framework_rendered' = TRUE
    /\ calls' = <<>>
    /\ alerts' = <<>>
    /\ UNCHANGED <<setup_complete, org_nr, profile, mapped_sdgs, prioritized_sdgs,
                   goals_and_kpis, integration_plan, page>>

(***************************************************************************)
(* Specifications                                                          *)
(***************************************************************************)
NextWith(responses, goals) ==
    \/ \E o \in OrgNumbers : EnterOrgNr(o)
    \/ \E get \in GetOutcomes, body \in RegistryBodies, tr \in TranslateOutcomes,
          ai \in AIOutcomes(responses) : StartAnalysis(get, body, tr, ai)
    \/ \E p \in MainPages : Navigate(p)
    \/ \E g \in goals, k \in KpiTexts : SaveGoal(g, k)
    \/ \E d \in Departments, a \in ActionItems : SaveIntegration(d, a)
    \/ \E i \in DOMAIN Frameworks : SelectFramework(Frameworks[i])

Next == NextWith(LLMResponses, GoalTexts)

Spec == Init /\ [][Next]_vars

\* The same session when the model may also answer with an oversize object.
NextOversize == NextWith(OversizeResponses, {1})

SpecOversize == Init /\ [][NextOversize]_vars

(***************************************************************************)
(* What the pages display                                                  *)
(***************************************************************************)
\* Page "2. Prioritize SDGs": the metrics Priority 1..n for a dict m.
PrioritizeView(m) == [i \in DOMAIN m.items |-> [priority |-> i, code |-> m.items[i]]]

\* The report's "1. Relevant SDGs" and "2. Prioritized Impact Areas" sections:
\* .items() of a list raises AttributeError, which ends the rerun.
MappedSection(m) ==
    IF ~Truthy(m) THEN [status |-> "Not yet defined.", lines |-> <<>>]
    ELSE IF m.kind = "dict" THEN [status |-> "listed", lines |-> m.items]
    ELSE [status |-> "AttributeError", lines |-> <<>>]

\* A section of the report that iterates over a saved map.
SavedSection(saved) ==
    IF DOMAIN saved = {} THEN [status |-> "Not yet defined.", lines |-> {}]
    ELSE [status |-> "listed", lines |-> { <<c, saved[c]>> : c \in DOMAIN saved }]

\* Page "6. Generate Report": the sections the rerun gets to display.
ReportView ==
    LET reached == MappedSection(mapped_sdgs).status # "AttributeError"
        skipped == [status |-> "not rendered", lines |-> {}]
    IN [framework    |-> reporting_framework,
        relevant     |-> MappedSection(mapped_sdgs),
        prioritized  |-> MappedSection(mapped_sdgs),
        goals        |-> IF reached THEN SavedSection(goals_and_kpis) ELSE skipped,
        integration  |-> IF reached THEN SavedSection(integration_plan) ELSE skipped]

(***************************************************************************)
(* Properties                                                              *)
(***************************************************************************)
LookupErrors == {WarnNoOrgNr, ErrInvalidOrgNr, ErrHttp, ErrConnection}

AnalysisErrors == {ErrGeminiConfig, ErrGeminiAnalysis}

Raised(msgs, a) == \E i \in DOMAIN a : a[i] \in msgs

RegistryNames == { b.navn : b \in RegistryBodies } \cup {"Name not found."}

\* C1: setup_complete starts false; it turns true only in a start_analysis run
\* whose registry lookup returned a company record (a GET was issued, no lookup
\* error was shown, the record's name was stored); while it is false no wizard
\* page is shown and goals_and_kpis, integration_plan and reporting_framework
\* keep their initial values.
SetupGate ==
    /\ ~setup_complete
    /\ [](~setup_complete =>
            /\ page = "Setup"
            /\ goals_and_kpis = EmptyMap
            /\ integration_plan = EmptyMap
            /\ reporting_framework = "Not Selected")
    /\ [][(~setup_complete /\ setup_complete') =>
            /\ calls' # <<>>
            /\ calls'[1] = "GET"
            /\ ~Raised(LookupErrors, alerts')
            /\ startup_name' \in RegistryNames
            /\ IsValidOrgNr(org_nr)]_vars

SetupGateWitness == setup_complete /\ page = "3" /\ DOMAIN goals_and_kpis # {}

\* C2: while no company record has been obtained the profile fields,
\* mapped_sdgs and setup_complete keep their initial values and the setup page
\* stays; a run of start_analysis shows at most one message, a lookup
\* warning or error; and no request is issued for an organisation number that
\* is not exactly 9 digits.
FailedLookupChangesNothing ==
    ~setup_complete =>
        /\ startup_name = ""
        /\ business_description = EmptyText
        /\ website = ""
        /\ sector = ""
        /\ employees = 0
        /\ mapped_sdgs = EmptyDict
        /\ page = "Setup"
        /\ Len(alerts) <= 1
        /\ \A i \in DOMAIN alerts : alerts[i] \in LookupErrors
        /\ calls \in {<<>>, <<"GET">>}
        /\ (~IsValidOrgNr(org_nr) => calls = <<>>)
        /\ (calls = <<"GET">> => Raised({ErrHttp, ErrConnection}, alerts))

FailedLookupWitness ==
    /\ ~setup_complete
    /\ Len(org_nr) = 10
    /\ alerts = <<ErrInvalidOrgNr>>
    /\ calls = <<>>

\* C3: the sequence shown as Priority 1..n (and the report's "Prioritized
\* Impact Areas") depends only on the set of matched SDGs, not on the order in
\* which the classifier returned them.
PriorityOrderIndependent ==
    (setup_complete /\ mapped_sdgs.kind = "dict") =>
        \A other \in LLMDicts :
            Keys(other) = Keys(mapped_sdgs) =>
                /\ PrioritizeView(other) = PrioritizeView(mapped_sdgs)
                /\ MappedSection(other) = MappedSection(mapped_sdgs)

\* C4: mapped_sdgs never holds more than five entries.
MappedWithinTaxonomy == Len(mapped_sdgs.items) <= TaxonomySize

\* C5: one run of start_analysis issues each external request at most once
\* and in the order GET, translation, LLM; the translation and the LLM request
\* happen only after a GET that returned a record; a failed request is the last
\* of its kind.
CallsOnceInOrder ==
    /\ calls \in {<<>>, <<"GET">>, <<"GET", "TRANSLATE">>, <<"GET", "LLM">>,
                  <<"GET", "TRANSLATE", "LLM">>}
    /\ (Raised(LookupErrors, alerts) => calls \in {<<>>, <<"GET">>})
    /\ (Len(calls) > 1 => setup_complete)

CallsOnceWitness ==
    /\ calls = <<"GET", "TRANSLATE", "LLM">>
    /\ alerts = <<WarnTranslation, ErrGeminiAnalysis>>

\* C6: the report page shows "Not yet defined." for Relevant SDGs, Goals and
\* KPIs and Strategy Integration exactly when mapped_sdgs, goals_and_kpis or
\* integration_plan is empty, and otherwise one item per stored entry.
ReportFaithful ==
    (setup_complete /\ page = "6") =>
        /\ (ReportView.relevant.status = "Not yet defined.") = ~Truthy(mapped_sdgs)
        /\ (Truthy(mapped_sdgs) =>
                /\ ReportView.relevant.status = "listed"
                /\ Len(ReportView.relevant.lines) = Len(mapped_sdgs.items))
        /\ (ReportView.goals.status = "Not yet defined.") = (DOMAIN goals_and_kpis = {})
        /\ (DOMAIN goals_and_kpis # {} =>
                /\ ReportView.goals.status = "listed"
                /\ Cardinality(ReportView.goals.lines) = Cardinality(DOMAIN goals_and_kpis))
        /\ (ReportView.integration.status = "Not yet defined.")
               = (DOMAIN integration_plan = {})
        /\ (DOMAIN integration_plan # {} =>
                /\ ReportView.integration.status = "listed"
                /\ Cardinality(ReportView.integration.lines)
                       = Cardinality(DOMAIN integration_plan))

\* The part of C6 about state: a rerun that renders the report stores nothing.
ReportRenderStoresNothing ==
    [][page' = "6" =>
          UNCHANGED <<setup_complete, org_nr, profile, mapped_sdgs, prioritized_sdgs,
                      goals_and_kpis, integration_plan, reporting_framework>>]_vars

\* C7: every key of integration_plan is a key of goals_and_kpis, and every key
\* of goals_and_kpis is a key of mapped_sdgs.
KeysNested ==
    /\ DOMAIN integration_plan \subseteq DOMAIN goals_and_kpis
    /\ DOMAIN goals_and_kpis \subseteq Keys(mapped_sdgs)

KeysNestedWitness ==
    /\ DOMAIN integration_plan # {}
    /\ DOMAIN integration_plan # DOMAIN goals_and_kpis
    /\ DOMAIN goals_and_kpis = Keys(mapped_sdgs)

\* C8: a step that changes goals_and_kpis changes the entry of one mapped SDG
\* only and leaves integration_plan, mapped_sdgs and reporting_framework alone;
\* a step that changes integration_plan changes one entry only and leaves
\* goals_and_kpis alone; no step removes a key from either map.
SavesTouchOneEntry ==
    [][/\ DOMAIN goals_and_kpis \subseteq DOMAIN goals_and_kpis'
       /\ DOMAIN integration_plan \subseteq DOMAIN integration_plan'
       /\ (goals_and_kpis' # goals_and_kpis =>
              /\ \E c \in Keys(mapped_sdgs) :
                    /\ DOMAIN goals_and_kpis' = DOMAIN goals_and_kpis \cup {c}
                    /\ \A d \in DOMAIN goals_and_kpis \ {c} :
                          goals_and_kpis'[d] = goals_and_kpis[d]
              /\ UNCHANGED <<integration_plan, mapped_sdgs, reporting_framework>>)
       /\ (integration_plan' # integration_plan =>
              /\ \E c \in DOMAIN goals_and_kpis :
                    /\ DOMAIN integration_plan' = DOMAIN integration_plan \cup {c}
                    /\ \A d \in DOMAIN integration_plan \ {c} :
                          integration_plan'[d] = integration_plan[d]
              /\ UNCHANGED <<goals_and_kpis, mapped_sdgs, reporting_framework>>)]_vars

SavesWitness ==
    /\ Cardinality(DOMAIN goals_and_kpis) = 2
    /\ \E c \in DOMAIN integration_plan : goals_and_kpis[c].goal = 2
    /\ page = "3"

\* C9: a start_analysis run whose AI analysis fails still sets setup_complete,
\* with mapped_sdgs empty; once setup_complete is true it stays true,
\* mapped_sdgs and the profile never change and no external request is issued
\* again; with mapped_sdgs empty no goal and no integration plan is ever saved.
SetupPermanent ==
    /\ [][Raised(AnalysisErrors, alerts') =>
             (setup_complete' /\ mapped_sdgs' = EmptyDict)]_vars
    /\ [][setup_complete =>
             /\ setup_complete'
             /\ UNCHANGED <<mapped_sdgs, profile>>
             /\ calls' = <<>>]_vars
    /\ []((setup_complete /\ ~Truthy(mapped_sdgs)) =>
             (goals_and_kpis = EmptyMap /\ integration_plan = EmptyMap))

SetupPermanentWitness ==
    /\ setup_complete
    /\ mapped_sdgs = EmptyDict
    /\ page = "4"
    /\ startup_name = "Acme AS"

\* C10: reporting_framework is "Not Selected" or one of the four frameworks;
\* it is "Not Selected" exactly when page 5 has never been rendered; entering
\* page 5 stores "GRI".
FrameworkStored ==
    /\ reporting_framework \in {"Not Selected", "GRI", "IRIS", "B Corp", "SDG Compass"}
    /\ (reporting_framework = "Not Selected") = ~framework_rendered
    /\ (page = "5" => framework_rendered)
    /\ ReportView.framework = reporting_framework

FrameworkWitness ==
    /\ page = "6"
    /\ ReportView.framework = "IRIS"

\* C10, the step form: entering page 5 stores "GRI", whatever was stored before.
FrameworkResetOnEntry ==
    [][(page # "5" /\ page' = "5") => reporting_framework' = "GRI"]_vars

====
